---- MODULE Spec2Model ----
(***************************************************************************)
(* GitKeep Manager (src/gitkeep.ts): the gitignore pattern compiler and    *)
(* matcher, the rule table loader and accumulator, the post-order          *)
(* directory walker and the marker reconciler.                             *)
(*                                                                         *)
(* A string is a sequence of one-character strings, so that the pattern    *)
(* compiler and the regular expressions it builds work on characters as    *)
(* the source does.                                                        *)
(***************************************************************************)
EXTENDS Integers, Sequences, FiniteSets, TLC

(***************************************************************************)
(* Strings                                                                 *)
(***************************************************************************)
SLASH == "/"
BACKSLASH == "\\"

\* src/gitkeep.ts:18-21
GITKEEP_FILENAME == <<".", "g", "i", "t", "k", "e", "e", "p">>
GITIGNORE_FILENAME == <<".", "g", "i", "t", "i", "g", "n", "o", "r", "e">>
GITKEEP_IGNORE_FILENAME == <<".", "g", "i", "t", "k", "e", "e", "p", "i", "g", "n", "o", "r", "e">>

\* String.prototype.slice(from) and slice(0, -1)
DropFirst(s) == SubSeq(s, 2, Len(s))
DropLast(s) == SubSeq(s, 1, Len(s) - 1)

StartsWith(s, c) == Len(s) > 0 /\ s[1] = c
EndsWith(s, c) == Len(s) > 0 /\ s[Len(s)] = c

\* String.prototype.trim, for the blank character
RECURSIVE TrimLeft(_)
TrimLeft(s) == IF StartsWith(s, " ") THEN TrimLeft(DropFirst(s)) ELSE s
RECURSIVE TrimRight(_)
TrimRight(s) == IF EndsWith(s, " ") THEN TrimRight(DropLast(s)) ELSE s
Trim(s) == TrimRight(TrimLeft(s))

\* String.prototype.split("/")
RECURSIVE SplitFrom(_, _, _)
SplitFrom(s, i, cur) ==
    IF i > Len(s) THEN <<cur>>
    ELSE IF s[i] = SLASH THEN <<cur>> \o SplitFrom(s, i + 1, <<>>)
    ELSE SplitFrom(s, i + 1, Append(cur, s[i]))
Split(s) == SplitFrom(s, 1, <<>>)

\* Array.prototype.join(sep) on a sequence of sequences
RECURSIVE Join(_, _)
Join(parts, sep) ==
    IF Len(parts) = 0 THEN <<>>
    ELSE IF Len(parts) = 1 THEN parts[1]
    ELSE parts[1] \o sep \o Join(Tail(parts), sep)

\* relativePosix of a directory given as a sequence of names: "." for the root
RelDir(names) == IF Len(names) = 0 THEN <<".">> ELSE Join(names, <<SLASH>>)

\* relativePosix(root, path.join(dirPath, name)), also path.join(relativeDir, name)
RelChild(names, name) == Join(Append(names, name), <<SLASH>>)

(***************************************************************************)
(* Pattern compiler: the regular expression is a sequence of tokens        *)
(***************************************************************************)
Tok(t, c) == [t |-> t, c |-> c]
Lit(c) == Tok("lit", c)              \* an escaped literal character
STAR == Tok("star", "")              \* [^/]*
ONE == Tok("one", "")                \* [^/]
OPTDIRS == Tok("optdirs", "")        \* (?:.*/)?
BOS == Tok("bos", "")                \* ^
BOS_OR_SLASH == Tok("bosOrSlash", "")  \* (?:^|/)
OPT_TAIL == Tok("optTail", "")       \* (?:/.*)?
EOS == Tok("eos", "")                \* $

\* escapeRegExp on a string: every character stands for itself
RECURSIVE escapeRegExp(_)
escapeRegExp(str) ==
    IF Len(str) = 0 THEN <<>> ELSE <<Lit(Head(str))>> \o escapeRegExp(Tail(str))

\* the inner loop of patternToRegExp over the characters of one segment
RECURSIVE SegmentRegex(_)
SegmentRegex(seg) ==
    IF Len(seg) = 0 THEN <<>>
    ELSE (IF Head(seg) = "*" THEN <<STAR>>
          ELSE IF Head(seg) = "?" THEN <<ONE>>
          ELSE <<Lit(Head(seg))>>) \o SegmentRegex(Tail(seg))

\* the outer loop of patternToRegExp over the segments
RECURSIVE RegexParts(_)
RegexParts(segments) ==
    IF Len(segments) = 0 THEN <<>>
    ELSE <<(IF Head(segments) = <<"*", "*">> THEN <<OPTDIRS>>
            ELSE SegmentRegex(Head(segments)))>> \o RegexParts(Tail(segments))

patternToRegExp(pattern, anchored, baseDir, onlyDir) ==
    LET regexParts == RegexParts(Split(pattern))
        joined == Join(regexParts, <<Lit(SLASH)>>)
        basePath == IF baseDir = <<".">> THEN <<>> ELSE Append(baseDir, SLASH)
    IN  IF anchored
        THEN <<BOS>> \o escapeRegExp(basePath) \o joined
                 \o (IF onlyDir THEN <<OPT_TAIL, EOS>> ELSE <<EOS>>)
        ELSE <<BOS_OR_SLASH>> \o joined
                 \o (IF onlyDir THEN <<OPT_TAIL, EOS>> ELSE <<EOS>>)

(***************************************************************************)
(* RegExp.prototype.test: the positions (0..Len) a match can have reached  *)
(***************************************************************************)
NoSlash(s, p, q) == \A k \in (p + 1)..q : s[k] # SLASH

TokStep(tok, S, s) ==
    LET n == Len(s) IN
    CASE tok.t = "lit" -> {p + 1 : p \in {q \in S : q < n /\ s[q + 1] = tok.c}}
      [] tok.t = "one" -> {p + 1 : p \in {q \in S : q < n /\ s[q + 1] # SLASH}}
      [] tok.t = "star" -> {q \in 0..n : \E p \in S : p <= q /\ NoSlash(s, p, q)}
      [] tok.t = "optdirs" -> S \cup {q \in 1..n : s[q] = SLASH /\ \E p \in S : p < q}
      [] tok.t = "bos" -> S \cap {0}
      [] tok.t = "bosOrSlash" ->
            (S \cap {0}) \cup {p + 1 : p \in {q \in S : q < n /\ s[q + 1] = SLASH}}
      [] tok.t = "optTail" ->
            S \cup {q \in 1..n : \E p \in S : p < q /\ s[p + 1] = SLASH}
      [] tok.t = "eos" -> S \cap {n}

RECURSIVE RegexRun(_, _, _)
RegexRun(regex, S, s) ==
    IF Len(regex) = 0 \/ S = {} THEN S
    ELSE RegexRun(Tail(regex), TokStep(Head(regex), S, s), s)

\* regex.test(s): a match may start anywhere
RegexTest(regex, s) == RegexRun(regex, 0..Len(s), s) # {}

(***************************************************************************)
(* loadIgnoreRules: one line of an ignore file                             *)
(***************************************************************************)
EscapedMeta == {BACKSLASH, "!", "*", "?", "[", "]", "{", "}", "(", ")"}

\* line.replace(/\\([\\!*?[\]{}()])/g, "$1")
RECURSIVE Unescape(_)
Unescape(s) ==
    IF Len(s) = 0 THEN <<>>
    ELSE IF s[1] = BACKSLASH /\ Len(s) >= 2 /\ s[2] \in EscapedMeta
         THEN <<s[2]>> \o Unescape(SubSeq(s, 3, Len(s)))
         ELSE <<s[1]>> \o Unescape(Tail(s))

\* line.replace(/\\/g, "/")
RECURSIVE BackslashToSlash(_)
BackslashToSlash(s) ==
    IF Len(s) = 0 THEN <<>>
    ELSE <<(IF s[1] = BACKSLASH THEN SLASH ELSE s[1])>> \o BackslashToSlash(Tail(s))

\* the lines the loop skips: blank after trim, or a comment
SkippedLine(raw) == LET t == Trim(raw) IN IF Len(t) = 0 THEN TRUE ELSE t[1] = "#"

\* the body of the loop of loadIgnoreRules for a line that is not skipped
ParseLine(raw, relativeDirPosix) ==
    LET t == Trim(raw)
        isNegated == StartsWith(t, "!")
        l1 == Unescape(IF isNegated THEN DropFirst(t) ELSE t)
        onlyDir == EndsWith(l1, SLASH)
        l2 == IF onlyDir THEN DropLast(l1) ELSE l1
        anchored == StartsWith(l2, SLASH)
        l3 == IF anchored THEN DropFirst(l2) ELSE l2
        pattern == BackslashToSlash(l3)
    IN  [pattern |-> pattern,
         isNegated |-> isNegated,
         onlyDir |-> onlyDir,
         anchored |-> anchored,
         baseDir |-> relativeDirPosix,
         regex |-> patternToRegExp(pattern, anchored, relativeDirPosix, onlyDir),
         original |-> raw]

\* the rules of the lines of one ignore file, in line order
RECURSIVE ParseLines(_, _)
ParseLines(lines, relativeDirPosix) ==
    IF Len(lines) = 0 THEN <<>>
    ELSE (IF SkippedLine(Head(lines)) THEN <<>>
          ELSE <<ParseLine(Head(lines), relativeDirPosix)>>)
         \o ParseLines(Tail(lines), relativeDirPosix)

(***************************************************************************)
(* Matcher                                                                 *)
(***************************************************************************)
\* matchRule without the test of line 493
matchRuleAnyType(relativePathPosix, rule, isDir) ==
    RegexTest(rule.regex, relativePathPosix)

matchRule(relativePathPosix, rule, isDir) ==
    IF rule.onlyDir /\ ~isDir THEN FALSE
    ELSE RegexTest(rule.regex, relativePathPosix)

RECURSIVE IgnoredFrom(_, _, _, _)
IgnoredFrom(relativePathPosix, isDir, rules, ignored) ==
    IF Len(rules) = 0 THEN ignored
    ELSE IgnoredFrom(relativePathPosix, isDir, Tail(rules),
                     IF matchRule(relativePathPosix, Head(rules), isDir)
                     THEN ~Head(rules).isNegated ELSE ignored)

\* isIgnored leaving its loop at the first rule that matches
isIgnoredFirstMatch(relativePathPosix, isDir, rules) ==
    LET hits == {i \in 1..Len(rules) : matchRule(relativePathPosix, rules[i], isDir)}
    IN  IF hits = {} THEN FALSE
        ELSE ~rules[CHOOSE i \in hits : \A j \in hits : i <= j].isNegated

isIgnored(relativePathPosix, isDir, rules) ==
    IgnoredFrom(relativePathPosix, isDir, rules, FALSE)

(***************************************************************************)
(* The file tree.  A directory is the sequence of the names on the way     *)
(* from the root to it; the root is <<>>.                                  *)
(***************************************************************************)
N_a == <<"a">>
N_b == <<"b">>
N_c == <<"c">>
N_dist == <<"d", "i", "s", "t">>
F_LOG == <<"e", ".", "l", "o", "g">>
F_TXT == <<"n", ".", "t", "x", "t">>

ROOT == <<>>
D_A == <<N_a>>
D_AB == <<N_a, N_b>>
D_C == <<N_c>>
D_DIST == <<N_dist>>

\* fs.readdir lists the children in this order
AllDirs == <<ROOT, D_A, D_AB, D_C, D_DIST>>
DirUniverse == {AllDirs[i] : i \in 1..Len(AllDirs)}

\* path.basename of the root directory
RootName == <<"p", "r", "o", "j">>

\* config.excludeDirs, src/gitkeep.ts:78
excludeDirs ==
    { <<".", "g", "i", "t">>,
      <<"n", "o", "d", "e", "_", "m", "o", "d", "u", "l", "e", "s">>,
      <<".", "n", "e", "x", "t">>,
      N_dist,
      <<"b", "u", "i", "l", "d">> }

VARIABLES
    config,            \* the merged Config: dryRun, clean, check, gitkeepName, content, respectGitkeepIgnore
    dirs,              \* the directories of the tree
    fs,                \* fs[d]: the files of directory d, name -> content (a sequence of lines)
    unlistable,        \* directories whose fs.readdir fails
    readonly,          \* directories in which fs.writeFile and fs.unlink fail
    unreadable,        \* directories whose ignore files exist but fail in fs.readFile
    pc,                \* position of main: "load", "walk", "done"
    run,               \* number of the current run of main
    gitignoreMap,      \* RulesMap of .gitignore, relative directory -> rules
    gitkeepIgnoreMap,  \* RulesMap of .gitkeepignore
    stack,             \* the frames of the walkDirectory calls in progress
    summary,           \* created, removed, skipped, errors
    console,           \* what warn, info and log have printed in this run
    trace,             \* the walkDirectory calls that returned in this run, in order of return
    fs0,               \* the files when this run started
    history,           \* the summaries of the runs that ended
    mpc,               \* a single rule: "line", "skipped", "compiled", "matched"
    mLine,             \* the raw line of an ignore file
    mBase,             \* the relative directory of that ignore file
    mPath,             \* the relative path that is matched
    mIsDir,            \* whether that path is a directory
    mRule,             \* the rule compiled from the line
    mResult,           \* what matchRule returned
    lpc,               \* a rule list: "lines", "rules", "decided", "appended"
    lLines,            \* the lines the rules are loaded from
    lRules,            \* the ordered rule list
    lPath,             \* the relative path that is decided
    lIsDir,            \* whether that path is a directory
    lIgnored,          \* what isIgnored returned for lRules
    lBefore            \* what isIgnored returned before the last rule was appended

walkVars == <<config, dirs, fs, unlistable, readonly, unreadable, pc, run,
              gitignoreMap, gitkeepIgnoreMap, stack, summary, console, trace, fs0, history>>
matchVars == <<mpc, mLine, mBase, mPath, mIsDir, mRule, mResult>>
listVars == <<lpc, lLines, lRules, lPath, lIsDir, lIgnored, lBefore>>
vars == <<walkVars, matchVars, listVars>>

Parent(d) == SubSeq(d, 1, Len(d) - 1)
BaseName(d) == IF Len(d) = 0 THEN RootName ELSE d[Len(d)]
IsPrefix(a, d) == Len(a) <= Len(d) /\ SubSeq(d, 1, Len(a)) = a

\* the child directories of d, in listing order
SubdirsOf(d) ==
    SelectSeq(AllDirs, LAMBDA c : c \in dirs /\ Len(c) = Len(d) + 1 /\ Parent(c) = d)

FileNames(d) == DOMAIN fs[d]

EmptySummary == [created |-> <<>>, removed |-> <<>>, skipped |-> <<>>, errors |-> <<>>]

Msg(level, kind, path) == [level |-> level, kind |-> kind, path |-> path]

(***************************************************************************)
(* Rule table loader                                                       *)
(***************************************************************************)
\* loadIgnoreRules(dirPath, relativeDirPosix, filename): the rules, and the warning of a failed read
loadIgnoreRules(d, filename) ==
    IF filename \notin FileNames(d) THEN [rules |-> <<>>, warns |-> <<>>]
    ELSE IF d \in unreadable
         THEN [rules |-> <<>>,
               warns |-> <<Msg("warn", "readIgnore", RelChild(d, filename))>>]
         ELSE [rules |-> ParseLines(fs[d][filename], RelDir(d)), warns |-> <<>>]

loadGitignoreFromPath(d) == loadIgnoreRules(d, GITIGNORE_FILENAME)

loadGitkeepIgnoreFromPath(d) ==
    IF ~config.respectGitkeepIgnore THEN [rules |-> <<>>, warns |-> <<>>]
    ELSE loadIgnoreRules(d, GITKEEP_IGNORE_FILENAME)

EmptyMap == [k \in {} |-> <<>>]
NoTables == [gi |-> EmptyMap, gki |-> EmptyMap, warns |-> <<>>]

MergeTables(t, u) ==
    [gi |-> t.gi @@ u.gi, gki |-> t.gki @@ u.gki, warns |-> t.warns \o u.warns]

\* recursiveLoad(dirPath, relativeDirPosix): pre-order, skipping the excluded names
RECURSIVE recursiveLoad(_)
RECURSIVE LoadChildren(_, _)
recursiveLoad(d) ==
    LET gi == loadGitignoreFromPath(d)
        gki == loadGitkeepIgnoreFromPath(d)
        own == [gi |-> IF Len(gi.rules) > 0 THEN (RelDir(d) :> gi.rules) ELSE EmptyMap,
                gki |-> IF Len(gki.rules) > 0 THEN (RelDir(d) :> gki.rules) ELSE EmptyMap,
                warns |-> gi.warns \o gki.warns]
    IN  IF d \in unlistable THEN own
        ELSE MergeTables(own, LoadChildren(SubdirsOf(d), NoTables))

LoadChildren(entries, acc) ==
    IF Len(entries) = 0 THEN acc
    ELSE LoadChildren(Tail(entries),
             IF BaseName(Head(entries)) \in excludeDirs THEN acc
             ELSE MergeTables(acc, recursiveLoad(Head(entries))))

loadAllIgnoreRules == recursiveLoad(ROOT)

(***************************************************************************)
(* Rule accumulator.  The cache of RulesAccumulator memoizes this function *)
(* of the two tables, which no step changes after the load.                *)
(***************************************************************************)
RulesOf(map, dir) == IF dir \in DOMAIN map THEN map[dir] ELSE <<>>

RECURSIVE AccumulateFrom(_, _, _)
AccumulateFrom(parts, i, accumulated) ==
    IF i > Len(parts) THEN accumulated
    ELSE LET dir == IF i = 0 THEN <<".">> ELSE Join(SubSeq(parts, 1, i), <<SLASH>>)
         IN  AccumulateFrom(parts, i + 1,
                 accumulated \o RulesOf(gitignoreMap, dir) \o RulesOf(gitkeepIgnoreMap, dir))

\* the loop of line 474 ending one level above the directory
accumulateAncestorsOnly(relativeDirPosix) ==
    LET parts == IF relativeDirPosix = <<".">> THEN <<>> ELSE Split(relativeDirPosix)
    IN  IF Len(parts) = 0 THEN <<>> ELSE AccumulateFrom(DropLast(parts), 0, <<>>)

accumulate(relativeDirPosix) ==
    LET parts == IF relativeDirPosix = <<".">> THEN <<>> ELSE Split(relativeDirPosix)
    IN  AccumulateFrom(parts, 0, <<>>)

(***************************************************************************)
(* Marker reconciler: the effect of a call on the files, the summary and   *)
(* the console                                                             *)
(***************************************************************************)
NoEffect == [fs |-> fs, summary |-> summary, console |-> console]

\* createGitkeep without the dryRun test of line 630
createGitkeepAlways(d) ==
    LET relativePath == RelChild(d, config.gitkeepName) IN
    IF d \in readonly
    THEN [fs |-> fs,
          summary |-> [summary EXCEPT !.errors = Append(@, Msg("error", "create", relativePath))],
          console |-> Append(console, Msg("warn", "create", relativePath))]
    ELSE [fs |-> [fs EXCEPT ![d] = (config.gitkeepName :> config.content) @@ @],
          summary |-> [summary EXCEPT !.created = Append(@, relativePath)],
          console |-> console]

createGitkeep(d) ==
    LET relativePath == RelChild(d, config.gitkeepName) IN
    IF config.dryRun
    THEN [fs |-> fs, summary |-> summary,
          console |-> Append(console, Msg("log", "dryCreate", relativePath))]
    ELSE IF d \in readonly
    THEN [fs |-> fs,
          summary |-> [summary EXCEPT !.errors = Append(@, Msg("error", "create", relativePath))],
          console |-> Append(console, Msg("warn", "create", relativePath))]
    ELSE [fs |-> [fs EXCEPT ![d] = (config.gitkeepName :> config.content) @@ @],
          summary |-> [summary EXCEPT !.created = Append(@, relativePath)],
          console |-> console]

removeGitkeep(d) ==
    LET relativePath == RelChild(d, config.gitkeepName) IN
    IF config.dryRun
    THEN [fs |-> fs, summary |-> summary,
          console |-> Append(console, Msg("log", "dryRemove", relativePath))]
    ELSE IF d \in readonly
    THEN [fs |-> fs,
          summary |-> [summary EXCEPT !.errors = Append(@, Msg("error", "remove", relativePath))],
          console |-> Append(console, Msg("warn", "remove", relativePath))]
    ELSE [fs |-> [fs EXCEPT ![d] = [n \in (DOMAIN @) \ {config.gitkeepName} |-> @[n]]],
          summary |-> [summary EXCEPT !.removed = Append(@, relativePath)],
          console |-> console]

(***************************************************************************)
(* Directory walker: one frame per walkDirectory call in progress          *)
(***************************************************************************)
Frame(d) ==
    [dir |-> d, phase |-> "enter", subdirs |-> <<>>, files |-> {},
     idx |-> 1, hasNonEmptySubdir |-> FALSE]

top == stack[Len(stack)]

\* the call on top returns isEmpty to the loop of its caller (lines 571-574)
ReturnTo(stk, isEmpty) ==
    LET rest == DropLast(stk) IN
    IF Len(rest) = 0 THEN rest
    ELSE [rest EXCEPT ![Len(rest)].idx = @ + 1,
                      ![Len(rest)].hasNonEmptySubdir = @ \/ ~isEmpty]

PcAfterReturn == IF Len(stack) = 1 THEN "done" ELSE "walk"

Event(d, outcome, isEmpty, hasGitkeep, action) ==
    [dir |-> d, outcome |-> outcome, isEmpty |-> isEmpty,
     hasGitkeep |-> hasGitkeep, action |-> action]

Excluded(d) == BaseName(d) \in excludeDirs
\* the directory's path matched as a file
DirIgnoredAsFile(d) == isIgnored(RelDir(d), FALSE, accumulate(RelDir(d)))
DirIgnored(d) == isIgnored(RelDir(d), TRUE, accumulate(RelDir(d)))

\* visibleFiles without the marker test of line 579
visibleFilesCountingMarker(f) ==
    LET rules == accumulate(RelDir(f.dir)) IN
    {n \in f.files : ~isIgnored(RelChild(f.dir, n), FALSE, rules)}

\* lines 577-589, on the listing the frame holds
visibleFiles(f) ==
    LET rules == accumulate(RelDir(f.dir)) IN
    {n \in f.files : n # config.gitkeepName /\ ~isIgnored(RelChild(f.dir, n), FALSE, rules)}
hasGitkeep(f) == config.gitkeepName \in f.files
\* isEmpty without the subdirectories of line 589
isEmptyFilesOnly(f) == visibleFiles(f) = {}
isEmpty(f) == visibleFiles(f) = {} /\ ~f.hasNonEmptySubdir

Entering == pc = "walk" /\ top.phase = "enter"
\* the decision taken without waiting for the loop of lines 569-575 to end
DecidingEarly == pc = "walk" /\ top.phase = "children"
Deciding == pc = "walk" /\ top.phase = "children" /\ top.idx > Len(top.subdirs)

Frozen == UNCHANGED <<config, dirs, unlistable, readonly, unreadable, run,
                      gitignoreMap, gitkeepIgnoreMap, fs0, history, matchVars, listVars>>

\* lines 537-541
WalkExcluded ==
    /\ Entering
    /\ Excluded(top.dir)
    /\ stack' = ReturnTo(stack, TRUE)
    /\ pc' = PcAfterReturn
    /\ trace' = Append(trace, Event(top.dir, "excluded", TRUE, FALSE, "none"))
    /\ UNCHANGED <<fs, summary, console>>
    /\ Frozen

\* lines 543-551
WalkIgnored ==
    /\ Entering
    /\ ~Excluded(top.dir)
    /\ DirIgnored(top.dir)
    /\ summary' = [summary EXCEPT !.skipped = Append(@, RelDir(top.dir))]
    /\ stack' = ReturnTo(stack, TRUE)
    /\ pc' = PcAfterReturn
    /\ trace' = Append(trace, Event(top.dir, "ignored", TRUE, FALSE, "none"))
    /\ UNCHANGED <<fs, console>>
    /\ Frozen

\* lines 553-562, fs.readdir throws
WalkListFail ==
    /\ Entering
    /\ ~Excluded(top.dir)
    /\ ~DirIgnored(top.dir)
    /\ top.dir \in unlistable
    /\ console' = Append(console, Msg("warn", "readdir", RelDir(top.dir)))
    /\ summary' = [summary EXCEPT !.errors = Append(@, Msg("error", "readdir", RelDir(top.dir)))]
    /\ stack' = ReturnTo(stack, TRUE)
    /\ pc' = PcAfterReturn
    /\ trace' = Append(trace, Event(top.dir, "listfail", TRUE, FALSE, "none"))
    /\ UNCHANGED fs
    /\ Frozen

\* lines 553-568, fs.readdir returns
WalkList ==
    /\ Entering
    /\ ~Excluded(top.dir)
    /\ ~DirIgnored(top.dir)
    /\ top.dir \notin unlistable
    /\ stack' = [stack EXCEPT ![Len(stack)] =
                    [@ EXCEPT !.phase = "children",
                              !.subdirs = SubdirsOf(top.dir),
                              !.files = FileNames(top.dir)]]
    /\ UNCHANGED <<fs, summary, console, trace, pc>>
    /\ Frozen

\* lines 569-571, the recursive call for the next subdirectory
WalkDescend ==
    /\ pc = "walk"
    /\ top.phase = "children"
    /\ top.idx <= Len(top.subdirs)
    /\ stack' = Append(stack, Frame(top.subdirs[top.idx]))
    /\ UNCHANGED <<fs, summary, console, trace, pc>>
    /\ Frozen

\* the clean branch removing only the markers of non-empty directories
CleanActionWhenNonEmpty(f) == IF hasGitkeep(f) /\ ~isEmpty(f) THEN "remove" ELSE "none"

\* lines 591-597, what the clean branch does with the marker
CleanAction(f) == IF hasGitkeep(f) THEN "remove" ELSE "none"

\* the check branch without its second diagnostic
CheckNoticeEmptyOnly(f) ==
    IF isEmpty(f) /\ ~hasGitkeep(f) THEN "emptyWithout" ELSE "none"

\* lines 599-607, the diagnostic of the check branch
CheckNotice(f) ==
    IF isEmpty(f) /\ ~hasGitkeep(f) THEN "emptyWithout"
    ELSE IF ~isEmpty(f) /\ hasGitkeep(f) THEN "nonEmptyWith"
    ELSE "none"

\* lines 609-618, what the normal branch does with the marker
NormalAction(f) ==
    IF isEmpty(f)
    THEN (IF ~hasGitkeep(f) THEN "create" ELSE "none")
    ELSE (IF hasGitkeep(f) THEN "remove" ELSE "none")

Reconcile(action, d) ==
    IF action = "create" THEN createGitkeep(d)
    ELSE IF action = "remove" THEN removeGitkeep(d)
    ELSE NoEffect

\* the call on top ends: its effect, then return isEmpty
Finish(eff, action) ==
    /\ fs' = eff.fs
    /\ summary' = eff.summary
    /\ console' = eff.console
    /\ stack' = ReturnTo(stack, isEmpty(top))
    /\ pc' = PcAfterReturn
    /\ trace' = Append(trace, Event(top.dir, "evaluated", isEmpty(top), hasGitkeep(top), action))
    /\ Frozen

\* the check mode tested before the clean mode
BranchCheckFirst ==
    IF config.check THEN "check" ELSE IF config.clean THEN "clean" ELSE "normal"

\* the branch of lines 591-618 the call takes: the tests of lines 592 and 600, in
\* that order
Branch ==
    IF config.clean THEN "clean" ELSE IF config.check THEN "check" ELSE "normal"

\* lines 591-597
WalkClean ==
    /\ Deciding
    /\ Branch = "clean"
    /\ Finish(Reconcile(CleanAction(top), top.dir), CleanAction(top))

\* lines 599-607
WalkCheck ==
    /\ Deciding
    /\ Branch = "check"
    /\ Finish(IF CheckNotice(top) = "none" THEN NoEffect
              ELSE [NoEffect EXCEPT !.console =
                       Append(@, Msg("info", CheckNotice(top), RelDir(top.dir)))],
              "none")

\* lines 609-620
WalkNormal ==
    /\ Deciding
    /\ Branch = "normal"
    /\ Finish(Reconcile(NormalAction(top), top.dir), NormalAction(top))

(***************************************************************************)
(* main: load the rule tables, then walk from the root                     *)
(***************************************************************************)
\* lines 831-846
LoadRules ==
    /\ pc = "load"
    /\ LET tables == loadAllIgnoreRules IN
        /\ gitignoreMap' = tables.gi
        /\ gitkeepIgnoreMap' = tables.gki
        /\ console' = tables.warns
    /\ summary' = EmptySummary
    /\ trace' = <<>>
    /\ stack' = <<Frame(ROOT)>>
    /\ fs0' = fs
    /\ pc' = "walk"
    /\ UNCHANGED <<config, dirs, fs, unlistable, readonly, unreadable, run, history, matchVars, listVars>>

\* the program is run again on the tree the last run left
MaxRuns == 2

Rerun ==
    /\ pc = "done"
    /\ run < MaxRuns
    /\ history' = Append(history, summary)
    /\ run' = run + 1
    /\ pc' = "load"
    /\ UNCHANGED <<config, dirs, fs, unlistable, readonly, unreadable,
                   gitignoreMap, gitkeepIgnoreMap, stack, summary, console, trace, fs0,
                   matchVars, listVars>>

(***************************************************************************)
(* One rule on one path: loadIgnoreRules on a line, then matchRule         *)
(***************************************************************************)
NoRule == [pattern |-> <<>>, isNegated |-> FALSE, onlyDir |-> FALSE, anchored |-> FALSE,
           baseDir |-> <<".">>, regex |-> <<>>, original |-> <<>>]

\* lines 385-386
SkipLine ==
    /\ mpc = "line"
    /\ SkippedLine(mLine)
    /\ mpc' = "skipped"
    /\ UNCHANGED <<mLine, mBase, mPath, mIsDir, mRule, mResult, walkVars, listVars>>

\* lines 388-421
CompileLine ==
    /\ mpc = "line"
    /\ ~SkippedLine(mLine)
    /\ mRule' = ParseLine(mLine, mBase)
    /\ mpc' = "compiled"
    /\ UNCHANGED <<mLine, mBase, mPath, mIsDir, mResult, walkVars, listVars>>

\* lines 492-502
MatchPath ==
    /\ mpc = "compiled"
    /\ mResult' = matchRule(mPath, mRule, mIsDir)
    /\ mpc' = "matched"
    /\ UNCHANGED <<mLine, mBase, mPath, mIsDir, mRule, walkVars, listVars>>

(***************************************************************************)
(* A rule list: loaded from the lines of an ignore file, decided for one   *)
(* path, then decided again with one more rule pushed at its end           *)
(***************************************************************************)
\* lines 383-422
LoadList ==
    /\ lpc = "lines"
    /\ lRules' = ParseLines(lLines, <<".">>)
    /\ lpc' = "rules"
    /\ UNCHANGED <<lLines, lPath, lIsDir, lIgnored, lBefore, walkVars, matchVars>>

\* lines 507-517
DecideIgnored ==
    /\ lpc = "rules"
    /\ lIgnored' = isIgnored(lPath, lIsDir, lRules)
    /\ lpc' = "decided"
    /\ UNCHANGED <<lLines, lRules, lPath, lIsDir, lBefore, walkVars, matchVars>>

\* line 479 (one more rule at the end of the list), then lines 507-517
AppendRule(line) ==
    /\ lpc = "decided"
    /\ ~SkippedLine(line)
    /\ lRules' = Append(lRules, ParseLine(line, <<".">>))
    /\ lBefore' = lIgnored
    /\ lIgnored' = isIgnored(lPath, lIsDir, lRules')
    /\ lpc' = "appended"
    /\ UNCHANGED <<lLines, lPath, lIsDir, walkVars, matchVars>>

(***************************************************************************)
(* The trees, rule files and configurations the runs start from            *)
(***************************************************************************)
L_LOG == <<"*", ".", "l", "o", "g">>
L_NOT_LOG == <<"!", "*", ".", "l", "o", "g">>
L_A_DIR == <<"a", "/">>
L_ANCHORED_B == <<"/", "b">>
L_STAR == <<"*">>
L_NOT_STAR == <<"!">> \o L_STAR
L_DOT_STAR == <<".", "*">>
L_COMMENT == <<"#", "x">>

NoContent == <<>>

\* the directories the walk can evaluate; dist is excluded by name
EvalDirs == {ROOT, D_A, D_AB, D_C}

\* at most MaxPlain ordinary files in the evaluated part of the tree
MaxPlain == 1
PlainFiles == {F_LOG, F_TXT}
PlainPlacements ==
    {P \in SUBSET (EvalDirs \X PlainFiles) : Cardinality(P) <= MaxPlain}
SomePlacements ==
    { {}, {<<D_AB, F_LOG>>}, {<<D_AB, F_LOG>>, <<D_C, F_TXT>>}, {<<D_A, F_TXT>>, <<D_A, F_LOG>>} }

\* rule files: <<directory, file name, lines>>
NoRuleFiles == {}
RootIgnoresLog == {<<ROOT, GITIGNORE_FILENAME, <<L_LOG>>>>}
IgnoreSetups ==
    { NoRuleFiles,
      RootIgnoresLog,
      {<<ROOT, GITKEEP_IGNORE_FILENAME, <<L_COMMENT, L_LOG>>>>,
       <<D_A, GITIGNORE_FILENAME, <<L_NOT_LOG>>>>},
      {<<ROOT, GITKEEP_IGNORE_FILENAME, <<L_A_DIR>>>>},
      {<<D_A, GITIGNORE_FILENAME, <<L_ANCHORED_B, L_STAR>>>>},
      {<<D_C, GITKEEP_IGNORE_FILENAME, <<L_STAR>>>>} }

\* unanchored rules in the ignore files of the directory they are to decide
OwnRuleSetups ==
    { {<<ROOT, GITIGNORE_FILENAME, <<L_STAR>>>>},
      {<<ROOT, GITIGNORE_FILENAME, <<L_DOT_STAR>>>>},
      {<<D_C, GITIGNORE_FILENAME, <<L_STAR>>>>},
      {<<D_AB, GITIGNORE_FILENAME, <<L_LOG, L_STAR>>>>},
      {<<D_A, GITIGNORE_FILENAME, <<L_STAR>>>>,
       <<D_A, GITKEEP_IGNORE_FILENAME, <<L_NOT_STAR>>>>} }

\* failing operations: <<kind, directory>>
NoFaults == {}
FaultSetups ==
    { {<<"list", D_A>>}, {<<"list", D_C>>}, {<<"write", D_AB>>}, {<<"write", ROOT>>},
      {<<"read", ROOT>>}, {<<"read", D_A>>}, {<<"list", D_A>>, <<"write", D_C>>} }

\* the files of the excluded directory dist
DistEmpty == EmptyMap
DistKept == (GITKEEP_FILENAME :> NoContent) @@ (F_TXT :> NoContent)

\* the shapes of the tree
Shapes == { DirUniverse, DirUniverse \ {D_DIST}, DirUniverse \ {D_AB}, {ROOT}, {ROOT, D_DIST} }

Modes == [dryRun : BOOLEAN, clean : BOOLEAN, check : BOOLEAN]

\* the marker file name and content: the defaults, or --gitkeep-name .gitignore --content "!*.log"
DefaultMarker == [gitkeepName |-> GITKEEP_FILENAME, content |-> NoContent]
GitignoreMarker == [gitkeepName |-> GITIGNORE_FILENAME, content |-> <<L_NOT_LOG>>]

MkConfig(mode, marker, respect) ==
    [dryRun |-> mode.dryRun, clean |-> mode.clean, check |-> mode.check,
     gitkeepName |-> marker.gitkeepName, content |-> marker.content,
     respectGitkeepIgnore |-> respect]

\* the files of directory d: its marker, its ordinary files, its rule files
MkFiles(d, cfg, marked, plain, ignores, dist) ==
    LET markerPart == IF d \in marked THEN (cfg.gitkeepName :> cfg.content) ELSE EmptyMap
        plainNames == {n \in PlainFiles : <<d, n>> \in plain}
        plainPart == [n \in plainNames |-> NoContent]
        ruleFiles == {t \in ignores : t[1] = d}
        rulePart == [n \in {t[2] : t \in ruleFiles} |->
                        (CHOOSE t \in ruleFiles : t[2] = n)[3]]
    IN  IF d = D_DIST THEN dist ELSE rulePart @@ markerPart @@ plainPart

MatchIdle ==
    /\ mpc = "idle"
    /\ mLine = <<>>
    /\ mBase = <<".">>
    /\ mPath = <<>>
    /\ mIsDir = FALSE
    /\ mRule = NoRule
    /\ mResult = FALSE

ListIdle ==
    /\ lpc = "idle"
    /\ lLines = <<>>
    /\ lRules = <<>>
    /\ lPath = <<>>
    /\ lIsDir = FALSE
    /\ lIgnored = FALSE
    /\ lBefore = FALSE

InitWith(cfg, shape, marked, plain, ignores, faults, dist) ==
    /\ config = cfg
    /\ dirs = shape
    /\ fs = [d \in shape |-> MkFiles(d, cfg, marked, plain, ignores, dist)]
    /\ unlistable = {f[2] : f \in {g \in faults : g[1] = "list"}}
    /\ readonly = {f[2] : f \in {g \in faults : g[1] = "write"}}
    /\ unreadable = {f[2] : f \in {g \in faults : g[1] = "read"}}
    /\ pc = "load"
    /\ run = 1
    /\ gitignoreMap = EmptyMap
    /\ gitkeepIgnoreMap = EmptyMap
    /\ stack = <<>>
    /\ summary = EmptySummary
    /\ console = <<>>
    /\ trace = <<>>
    /\ fs0 = fs
    /\ history = <<>>

\* every mode on every placement of markers and of a few ordinary files
InitFiles ==
    \E mode \in Modes, marked \in SUBSET {D_A, D_AB, D_C}, plain \in PlainPlacements,
       ignores \in {NoRuleFiles, RootIgnoresLog} :
        InitWith(MkConfig(mode, DefaultMarker, TRUE),
                 DirUniverse, marked, plain, ignores, NoFaults, DistEmpty)

\* every mode on every set of rule files
InitRules ==
    \E mode \in Modes, marked \in {{}, EvalDirs, {D_A, D_C}, {ROOT, D_AB}},
       plain \in SomePlacements, ignores \in IgnoreSetups, respect \in BOOLEAN :
        InitWith(MkConfig(mode, DefaultMarker, respect),
                 DirUniverse, marked, plain, ignores, NoFaults, DistKept)

\* every mode with failing operations
InitFaults ==
    \E mode \in Modes, marked \in {{}, EvalDirs, {D_A, D_C}, {ROOT, D_AB}},
       plain \in SomePlacements, faults \in FaultSetups :
        InitWith(MkConfig(mode, DefaultMarker, TRUE),
                 DirUniverse, marked, plain,
                 {<<ROOT, GITKEEP_IGNORE_FILENAME, <<L_COMMENT, L_LOG>>>>,
                  <<D_A, GITIGNORE_FILENAME, <<L_NOT_LOG>>>>},
                 faults, DistEmpty)

\* every mode with .gitignore as the marker file
InitMarkerName ==
    \E mode \in Modes, marked \in {{}, EvalDirs, {D_A, D_C}, {ROOT, D_AB}},
       plain \in SomePlacements,
       ignores \in {NoRuleFiles, RootIgnoresLog,
                    {<<ROOT, GITKEEP_IGNORE_FILENAME, <<L_COMMENT, L_LOG>>>>}} :
        InitWith(MkConfig(mode, GitignoreMarker, TRUE),
                 DirUniverse, marked, plain, ignores, NoFaults, DistEmpty)

\* every mode on a directory whose own ignore files hold a rule for itself
InitOwnRules ==
    \E mode \in Modes, marked \in {{}, EvalDirs},
       plain \in {{}, {<<D_AB, F_LOG>>, <<D_C, F_TXT>>}},
       ignores \in OwnRuleSetups, respect \in BOOLEAN :
        InitWith(MkConfig(mode, DefaultMarker, respect),
                 DirUniverse, marked, plain, ignores, NoFaults, DistEmpty)

\* every mode on smaller trees
InitShapes ==
    \E mode \in Modes, shape \in Shapes, marked \in SUBSET EvalDirs,
       plain \in {{}, {<<D_C, F_TXT>>}}, dist \in {DistEmpty, DistKept} :
        InitWith(MkConfig(mode, DefaultMarker, TRUE),
                 shape, marked, plain, NoRuleFiles, NoFaults, dist)

Init ==
    /\ MatchIdle
    /\ ListIdle
    /\ \/ InitFiles
       \/ InitRules
       \/ InitFaults
       \/ InitMarkerName
       \/ InitOwnRules
       \/ InitShapes

Next ==
    \/ LoadRules
    \/ WalkExcluded
    \/ WalkIgnored
    \/ WalkListFail
    \/ WalkList
    \/ WalkDescend
    \/ WalkClean
    \/ WalkCheck
    \/ WalkNormal
    \/ Rerun

Spec == Init /\ [][Next]_vars

(***************************************************************************)
(* The lines and paths a single rule is tried on                           *)
(***************************************************************************)
P_FOO == <<"f", "o", "o">>
P_BUILD == <<"b", "u", "i", "l", "d">>
P_A_TXT == <<"a", ".", "t", "x", "t">>
P_SUB == <<"s", "u", "b">>

L_DEEP_FOO == <<"*", "*", "/", "f", "o", "o">>
L_BUILD_DIR == Append(P_BUILD, SLASH)
L_ANCHORED_FOO == <<SLASH>> \o P_FOO
L_ESCAPED == <<" ", BACKSLASH, "!", "f", "?", "o", " ">>
L_BLANK == <<" ">>

MatchLines ==
    {L_DEEP_FOO, L_BUILD_DIR, L_ANCHORED_FOO, L_ESCAPED, L_BLANK, L_COMMENT, L_LOG, L_STAR}

MatchBases == {<<".">>, <<"a">>}

\* a path is its names joined by the separator
Path(names) == Join(names, <<SLASH>>)
MatchPaths ==
    { Path(<<P_FOO>>), Path(<<N_a, N_b, P_FOO>>), Path(<<N_a, P_FOO>>),
      Path(<<P_BUILD>>), Path(<<P_BUILD, P_A_TXT>>), Path(<<P_BUILD, P_SUB>>),
      Path(<<P_BUILD, P_SUB, P_A_TXT>>), Path(<<N_a, P_BUILD>>),
      Path(<<N_a, P_BUILD, P_A_TXT>>), Path(<<P_A_TXT>>),
      Path(<<N_a, <<>>, P_FOO>>), <<"x">> \o P_BUILD, <<"!", "f", "x", "o">>, <<".">> }

InitMatch ==
    /\ mpc = "line"
    /\ mLine \in MatchLines
    /\ mBase \in MatchBases
    /\ mPath \in MatchPaths
    /\ mIsDir \in BOOLEAN
    /\ mRule = NoRule
    /\ mResult = FALSE
    /\ ListIdle
    /\ InitWith(MkConfig([dryRun |-> FALSE, clean |-> FALSE, check |-> FALSE],
                         DefaultMarker, TRUE),
                {ROOT}, {}, {}, NoRuleFiles, NoFaults, DistEmpty)

NextMatch ==
    \/ SkipLine
    \/ CompileLine
    \/ MatchPath

SpecMatch == InitMatch /\ [][NextMatch]_vars

(***************************************************************************)
(* The rule lists and paths isIgnored is tried on                          *)
(***************************************************************************)
L_NOT_BUILD == <<"!">> \o P_BUILD

ListLines == {L_LOG, L_NOT_LOG, L_BUILD_DIR, L_NOT_BUILD, L_STAR, L_NOT_STAR, L_COMMENT}

MaxRules == 2
RECURSIVE LinesUpTo(_)
LinesUpTo(n) ==
    IF n = 0 THEN {<<>>}
    ELSE LinesUpTo(n - 1) \cup {Append(l, x) : l \in LinesUpTo(n - 1), x \in ListLines}

ListPaths == {F_LOG, Path(<<N_a, F_LOG>>), P_BUILD, Path(<<P_BUILD, F_LOG>>), P_FOO}

InitList ==
    /\ lpc = "lines"
    /\ lLines \in LinesUpTo(MaxRules)
    /\ lRules = <<>>
    /\ lPath \in ListPaths
    /\ lIsDir \in BOOLEAN
    /\ lIgnored = FALSE
    /\ lBefore = FALSE
    /\ MatchIdle
    /\ InitWith(MkConfig([dryRun |-> FALSE, clean |-> FALSE, check |-> FALSE],
                         DefaultMarker, TRUE),
                {ROOT}, {}, {}, NoRuleFiles, NoFaults, DistEmpty)

NextList ==
    \/ LoadList
    \/ DecideIgnored
    \/ \E line \in ListLines : AppendRule(line)

SpecList == InitList /\ [][NextList]_vars

(***************************************************************************)
(* What a run has done, read from its summary, its console and its trace   *)
(***************************************************************************)
SeqHas(seq, x) == \E i \in 1..Len(seq) : seq[i] = x
Count(seq, x) == Cardinality({i \in 1..Len(seq) : seq[i] = x})

EventsWith(outcome) == {trace[i] : i \in {j \in 1..Len(trace) : trace[j].outcome = outcome}}
Returned(d) == \E i \in 1..Len(trace) : trace[i].dir = d
ReturnedEmpty(d) == \E i \in 1..Len(trace) : trace[i].dir = d /\ trace[i].isEmpty

ChildDirs(d) == {c \in dirs : Len(c) = Len(d) + 1 /\ Parent(c) = d}
Beneath(a) == {d \in dirs : IsPrefix(a, d) /\ d # a}

MarkerPath(d) == RelChild(d, config.gitkeepName)
MarkerIn(files, d) == config.gitkeepName \in DOMAIN files[d]

\* the marker writes and deletes attempted in d: done, failed or only announced
CreateAttempts(d) ==
    Count(summary.created, MarkerPath(d))
    + Count(summary.errors, Msg("error", "create", MarkerPath(d)))
    + Count(console, Msg("log", "dryCreate", MarkerPath(d)))
RemoveAttempts(d) ==
    Count(summary.removed, MarkerPath(d))
    + Count(summary.errors, Msg("error", "remove", MarkerPath(d)))
    + Count(console, Msg("log", "dryRemove", MarkerPath(d)))

WriteFailed ==
    \E i \in 1..Len(summary.errors) : summary.errors[i].kind \in {"create", "remove"}

NormalMode == ~config.clean /\ ~config.check
CheckMode == config.check /\ ~config.clean
CleanMode == config.clean

\* the direct child files of d that are not the marker and not ignored
VisibleAtStart(d) ==
    {n \in DOMAIN fs0[d] :
        /\ n # config.gitkeepName
        /\ ~isIgnored(RelChild(d, n), FALSE, accumulate(RelDir(d)))}

\* the emptiness an evaluated directory returned is that of its files and its children
EmptinessAsSpecified(e) ==
    /\ \A c \in ChildDirs(e.dir) : Returned(c)
    /\ e.isEmpty = (VisibleAtStart(e.dir) = {} /\ \A c \in ChildDirs(e.dir) : ReturnedEmpty(c))

BoolToNat(b) == IF b THEN 1 ELSE 0

(***************************************************************************)
(* C1: in normal mode every evaluated directory is empty exactly when it   *)
(* has no visible file and no child returned non-empty; a marker write is  *)
(* attempted exactly when it is empty without marker, a delete exactly     *)
(* when it is non-empty with marker; and after a run that changes files    *)
(* and in which no write or delete failed, it holds the marker if and only *)
(* if it is empty.                                                         *)
(***************************************************************************)
C1_NormalReconciles ==
    NormalMode =>
        \A e \in EventsWith("evaluated") :
            /\ EmptinessAsSpecified(e)
            /\ CreateAttempts(e.dir) = BoolToNat(e.isEmpty /\ ~MarkerIn(fs0, e.dir))
            /\ RemoveAttempts(e.dir) = BoolToNat(~e.isEmpty /\ MarkerIn(fs0, e.dir))
            /\ (pc = "done" /\ ~config.dryRun /\ ~WriteFailed)
                   => (MarkerIn(fs, e.dir) <=> e.isEmpty)

\* a normal run that created one marker and removed another, nothing failing
C1_Witness ==
    /\ NormalMode
    /\ pc = "done"
    /\ ~config.dryRun
    /\ ~WriteFailed
    /\ summary.created # <<>>
    /\ summary.removed # <<>>
    /\ \E e \in EventsWith("evaluated") : ~e.isEmpty /\ VisibleAtStart(e.dir) = {}

(***************************************************************************)
(* C2: idempotence, as claimed for every configuration: the second of two  *)
(* normal runs creates nothing and removes nothing.                        *)
(***************************************************************************)
C2_IdempotentAnyConfig ==
    (run >= 2 /\ pc = "done" /\ NormalMode)
        => (summary.created = <<>> /\ summary.removed = <<>>)

(***************************************************************************)
(* C2 as amended: the second of two normal runs creates nothing and        *)
(* removes nothing when the marker file name is not the name of an ignore  *)
(* file.                                                                   *)
(***************************************************************************)
C2_Idempotent ==
    (/\ run >= 2
     /\ pc = "done"
     /\ NormalMode
     /\ config.gitkeepName \notin {GITIGNORE_FILENAME, GITKEEP_IGNORE_FILENAME})
        => (summary.created = <<>> /\ summary.removed = <<>>)

\* a second run ended after a first run that created and removed markers
C2_Witness ==
    /\ run = 2
    /\ pc = "done"
    /\ NormalMode
    /\ config.gitkeepName = GITKEEP_FILENAME
    /\ history[1].created # <<>>
    /\ history[1].removed # <<>>

(***************************************************************************)
(* C3: a directory whose name is excluded is not listed or descended into, *)
(* no marker inside it is created or removed, its relative path is         *)
(* appended to skipped, and it returns empty.                              *)
(***************************************************************************)
C3_ExcludedIsSkipped ==
    \A e \in EventsWith("excluded") :
        /\ e.isEmpty
        /\ SeqHas(summary.skipped, RelDir(e.dir))
        /\ fs[e.dir] = fs0[e.dir]
        /\ CreateAttempts(e.dir) = 0 /\ RemoveAttempts(e.dir) = 0
        /\ \A d \in Beneath(e.dir) : ~Returned(d)

(***************************************************************************)
(* C4: a directory that its accumulated rules ignore as a directory is     *)
(* appended to skipped exactly once and returns empty; nothing beneath it  *)
(* is visited, and no marker is created or removed in it or beneath it,    *)
(* in every mode.                                                          *)
(***************************************************************************)
RulesIgnoreDir(d) == isIgnored(RelDir(d), TRUE, accumulate(RelDir(d)))

Untouched(d) ==
    /\ fs[d] = fs0[d]
    /\ CreateAttempts(d) = 0
    /\ RemoveAttempts(d) = 0

C4_IgnoredIsSkipped ==
    \A i \in 1..Len(trace) :
        LET e == trace[i] IN
        (~Excluded(e.dir) /\ RulesIgnoreDir(e.dir)) =>
            /\ e.outcome = "ignored"
            /\ e.isEmpty
            /\ Count(summary.skipped, RelDir(e.dir)) = 1
            /\ Untouched(e.dir)
            /\ \A d \in Beneath(e.dir) :
                   /\ ~Returned(d)
                   /\ \A k \in 1..Len(stack) : stack[k].dir # d
                   /\ Untouched(d)

\* an ignored directory with a directory beneath it, one of them holding a marker
\* although it has a visible file, after a whole run that changes files
C4_Witness ==
    /\ pc = "done"
    /\ ~config.dryRun
    /\ NormalMode
    /\ \E e \in EventsWith("ignored") :
           /\ Beneath(e.dir) # {}
           /\ \E d \in Beneath(e.dir) \cup {e.dir} :
                  MarkerIn(fs0, d) /\ VisibleAtStart(d) # {}
           /\ \E d \in Beneath(e.dir) \cup {e.dir} : ~MarkerIn(fs0, d)

(***************************************************************************)
(* C5: in clean mode the delete of the marker is attempted in every        *)
(* evaluated directory that holds one, empty or not, no marker is ever     *)
(* created, and the value returned is the computed emptiness; after a run  *)
(* that changes files and in which no delete failed every such marker is   *)
(* in removed and gone.                                                    *)
(***************************************************************************)
C5_CleanRemovesAll ==
    CleanMode =>
        /\ summary.created = <<>>
        /\ \A d \in dirs : MarkerIn(fs, d) => MarkerIn(fs0, d)
        /\ \A e \in EventsWith("evaluated") :
            /\ EmptinessAsSpecified(e)
            /\ CreateAttempts(e.dir) = 0
            /\ RemoveAttempts(e.dir) = BoolToNat(MarkerIn(fs0, e.dir))
            /\ (~config.dryRun /\ ~WriteFailed /\ MarkerIn(fs0, e.dir))
                   => (SeqHas(summary.removed, MarkerPath(e.dir)) /\ ~MarkerIn(fs, e.dir))

\* a clean run that removed three markers, of empty and of non-empty directories
C5_Witness ==
    /\ CleanMode
    /\ pc = "done"
    /\ Len(summary.removed) >= 3
    /\ \E e \in EventsWith("evaluated") :
           e.isEmpty /\ SeqHas(summary.removed, MarkerPath(e.dir))
    /\ \E e \in EventsWith("evaluated") :
           ~e.isEmpty /\ SeqHas(summary.removed, MarkerPath(e.dir))

(***************************************************************************)
(* C6: in check mode the files never change, created and removed stay      *)
(* empty, and there is exactly one diagnostic for each evaluated directory *)
(* whose marker presence disagrees with its emptiness and none for any     *)
(* other directory.                                                        *)
(***************************************************************************)
Diagnostics(d) ==
    Cardinality({i \in 1..Len(console) :
                    console[i].level = "info" /\ console[i].path = RelDir(d)})

Disagrees(e) ==
    \/ e.isEmpty /\ ~MarkerIn(fs0, e.dir)
    \/ ~e.isEmpty /\ MarkerIn(fs0, e.dir)

C6_CheckOnlyReports ==
    CheckMode =>
        /\ fs = fs0
        /\ summary.created = <<>>
        /\ summary.removed = <<>>
        /\ \A d \in dirs : CreateAttempts(d) = 0 /\ RemoveAttempts(d) = 0
        /\ \A e \in EventsWith("evaluated") :
               /\ EmptinessAsSpecified(e)
               /\ Diagnostics(e.dir) = BoolToNat(Disagrees(e))
        /\ \A d \in dirs :
               (\A e \in EventsWith("evaluated") : e.dir # d) => Diagnostics(d) = 0
        /\ Cardinality({i \in 1..Len(console) : console[i].level = "info"})
               = Cardinality({e \in EventsWith("evaluated") : Disagrees(e)})

\* a check run that reported an empty directory without marker and a non-empty one
\* with marker, and reported nothing for a third
C6_Witness ==
    /\ CheckMode
    /\ pc = "done"
    /\ \E e \in EventsWith("evaluated") : e.isEmpty /\ ~MarkerIn(fs0, e.dir)
    /\ \E e \in EventsWith("evaluated") : ~e.isEmpty /\ MarkerIn(fs0, e.dir)
    /\ \E e \in EventsWith("evaluated") : ~Disagrees(e)
    /\ \E i \in 1..Len(console) : console[i].level = "info"

(***************************************************************************)
(* C7: with dryRun on, in any mode, no file changes, created and removed   *)
(* stay empty, and createGitkeep and removeGitkeep add nothing to errors.  *)
(***************************************************************************)
C7_DryRunChangesNothing ==
    config.dryRun =>
        /\ fs = fs0
        /\ summary.created = <<>>
        /\ summary.removed = <<>>
        /\ ~WriteFailed

\* a dry run that announced a marker write and a marker delete, one of them in a
\* directory where the write would have failed
C7_Witness ==
    /\ config.dryRun
    /\ pc = "done"
    /\ \E i \in 1..Len(console) : console[i].kind = "dryCreate"
    /\ \E i \in 1..Len(console) : console[i].kind = "dryRemove"
    /\ \E d \in readonly : CreateAttempts(d) + RemoveAttempts(d) > 0

(***************************************************************************)
(* C8: every failure of a directory listing, an ignore file read, a marker *)
(* write or a marker delete becomes an entry of errors; a failed write or  *)
(* delete is absent from created and removed; a directory whose listing    *)
(* failed returns empty.                                                   *)
(***************************************************************************)
C8_EveryFailureIsAnError ==
    /\ \A i \in 1..Len(console) :
           console[i].level = "warn" =>
               SeqHas(summary.errors, Msg("error", console[i].kind, console[i].path))
    /\ \A i \in 1..Len(summary.errors) :
           summary.errors[i].kind \in {"create", "remove"} =>
               /\ ~SeqHas(summary.created, summary.errors[i].path)
               /\ ~SeqHas(summary.removed, summary.errors[i].path)
    /\ \A e \in EventsWith("listfail") : e.isEmpty

(***************************************************************************)
(* C9: the rule of the line **/foo matches the path foo and the path       *)
(* a/b/foo, whatever its defining directory.                               *)
(***************************************************************************)
C9_DeepFooMatches ==
    (/\ mpc = "matched"
     /\ mLine = L_DEEP_FOO
     /\ mPath \in {Path(<<P_FOO>>), Path(<<N_a, N_b, P_FOO>>)})
        => mResult

(***************************************************************************)
(* C10: as claimed, the rule of the line build/ matches the directory      *)
(* build and every path beneath it, directory or file, and never a file    *)
(* whose own name is build.                                                *)
(***************************************************************************)
PathNames == Split(mPath)
NamedBuild == PathNames[Len(PathNames)] = P_BUILD
BeneathBuild == \E i \in 1..(Len(PathNames) - 1) : PathNames[i] = P_BUILD

C10_BuildDirMatchesSubtree ==
    (mpc = "matched" /\ mLine = L_BUILD_DIR) =>
        /\ (NamedBuild /\ mIsDir) => mResult
        /\ BeneathBuild => mResult
        /\ (NamedBuild /\ ~mIsDir /\ ~BeneathBuild) => ~mResult

(***************************************************************************)
(* C10 as amended: the rule of the line build/ matches the directory build *)
(* and every directory beneath it, and never matches a file: neither a     *)
(* file named build nor a file beneath build.                              *)
(***************************************************************************)
C10_BuildDirMatchesDirectories ==
    (mpc = "matched" /\ mLine = L_BUILD_DIR) =>
        (mResult <=> (mIsDir /\ (NamedBuild \/ BeneathBuild)))

\* the rule of build/ was tried on the file build/a.txt, and on nothing it matched
C10_Witness ==
    /\ mpc = "matched"
    /\ mLine = L_BUILD_DIR
    /\ mPath = Path(<<P_BUILD, P_A_TXT>>)
    /\ ~mIsDir
    /\ mRule.onlyDir
    /\ ~mResult


\* the rules of a list that match the decided path and type
Matching(rules) == {i \in 1..Len(rules) : matchRule(lPath, rules[i], lIsDir)}
LastMatching(rules) == CHOOSE i \in Matching(rules) : \A j \in Matching(rules) : j <= i
LastVerdict(rules) ==
    IF Matching(rules) = {} THEN FALSE ELSE ~rules[LastMatching(rules)].isNegated

\* C11: isIgnored returns the verdict of the last rule of the list that matches the
\* path and type (ignored when that rule is not negated, not ignored when it is),
\* not ignored when no rule matches, and a further rule at the end of the list that
\* does not match leaves the verdict as it was
C11_LastMatchWins ==
    /\ lpc \in {"decided", "appended"} => lIgnored = LastVerdict(lRules)
    /\ (lpc = "appended" /\ Len(lRules) \notin Matching(lRules)) => lIgnored = lBefore

\* two rules of opposite sign match, the later one negated, and a third that does
\* not match has been appended
C11_Witness ==
    /\ lpc = "appended"
    /\ Len(lRules) = 3
    /\ Matching(lRules) = {1, 2}
    /\ ~lRules[1].isNegated
    /\ lRules[2].isNegated
    /\ ~lIgnored
    /\ lBefore = lIgnored

(***************************************************************************)
(* C12: post-order.  A directory is decided (its emptiness computed, its   *)
(* marker created or removed) only after the walk of each of its child     *)
(* subdirectories, and so of everything beneath it, has returned; the      *)
(* children return in listing order; in created and in removed the entry   *)
(* of a directory precedes the entry of each of its ancestors; and during  *)
(* a walk created and removed are only appended to.                        *)
(***************************************************************************)
Pos(seq, x) == CHOOSE i \in 1..Len(seq) : seq[i] = x
SeqPrefix(s, t) == Len(s) <= Len(t) /\ SubSeq(t, 1, Len(s)) = s

ChildrenFirst ==
    \A i \in 1..Len(trace) :
        trace[i].outcome = "evaluated" =>
            /\ \A c \in ChildDirs(trace[i].dir) : \E j \in 1..(i - 1) : trace[j].dir = c
            /\ \A j \in 1..Len(trace) : trace[j].dir \in Beneath(trace[i].dir) => j < i

\* a call in progress has decided nothing yet, and exactly the children before its
\* loop position have returned
UndecidedInProgress ==
    \A k \in 1..Len(stack) :
        /\ ~Returned(stack[k].dir)
        /\ stack[k].phase = "children" =>
               \A n \in 1..Len(stack[k].subdirs) :
                   Returned(stack[k].subdirs[n]) <=> n < stack[k].idx

ListingOrder ==
    \A i, j \in 1..Len(trace) :
        LET c == trace[i].dir
            d == trace[j].dir
        IN  (/\ c # ROOT /\ d # ROOT /\ Parent(c) = Parent(d)
             /\ Pos(SubdirsOf(Parent(c)), c) < Pos(SubdirsOf(Parent(c)), d)) => i < j

DescendantsFirst(list) ==
    \A i, j \in 1..Len(list) :
        (\E a \in dirs : \E d \in Beneath(a) :
            list[i] = MarkerPath(a) /\ list[j] = MarkerPath(d)) => j < i

OnlyGrows ==
    pc = "walk" => /\ SeqPrefix(summary.created, summary'.created)
                   /\ SeqPrefix(summary.removed, summary'.removed)

C12_PostOrder ==
    /\ [](/\ ChildrenFirst
          /\ UndecidedInProgress
          /\ ListingOrder
          /\ DescendantsFirst(summary.created)
          /\ DescendantsFirst(summary.removed))
    /\ [][OnlyGrows]_vars

\* a run that created the marker of a/b, then that of a, then that of c, and removed
\* nothing out of that order
C12_Witness ==
    /\ pc = "done"
    /\ SeqHas(summary.created, MarkerPath(D_AB))
    /\ SeqHas(summary.created, MarkerPath(D_A))
    /\ SeqHas(summary.created, MarkerPath(D_C))
    /\ Pos(summary.created, MarkerPath(D_AB)) < Pos(summary.created, MarkerPath(D_A))
    /\ Pos(summary.created, MarkerPath(D_A)) < Pos(summary.created, MarkerPath(D_C))
    /\ Pos(trace, CHOOSE e \in EventsWith("evaluated") : e.dir = D_AB) = 1

(***************************************************************************)
(* C13: with clean and check both set every evaluated directory takes the  *)
(* clean branch: the delete of its marker is attempted exactly when it     *)
(* holds one and nothing is created; no diagnostic of the check branch is  *)
(* printed; the marker is deleted and in removed after a run that changes  *)
(* files and in which no delete failed, and with dryRun no file changes.   *)
(***************************************************************************)
CleanAndCheck == config.clean /\ config.check

C13_CleanBeforeCheck ==
    CleanAndCheck =>
        /\ \A i \in 1..Len(console) : console[i].level # "info"
        /\ summary.created = <<>>
        /\ config.dryRun => fs = fs0
        /\ \A e \in EventsWith("evaluated") :
               /\ e.action = (IF MarkerIn(fs0, e.dir) THEN "remove" ELSE "none")
               /\ CreateAttempts(e.dir) = 0
               /\ RemoveAttempts(e.dir) = BoolToNat(MarkerIn(fs0, e.dir))
               /\ (~config.dryRun /\ ~WriteFailed /\ MarkerIn(fs0, e.dir))
                      => (SeqHas(summary.removed, MarkerPath(e.dir)) /\ ~MarkerIn(fs, e.dir))

\* a run with both modes set that deleted the marker of an empty directory, for which
\* the check branch prints nothing, and passed an empty directory without marker,
\* for which the check branch prints a diagnostic
C13_Witness ==
    /\ CleanAndCheck
    /\ ~config.dryRun
    /\ pc = "done"
    /\ fs # fs0
    /\ \E e \in EventsWith("evaluated") :
           e.isEmpty /\ MarkerIn(fs0, e.dir) /\ ~MarkerIn(fs, e.dir)
    /\ \E e \in EventsWith("evaluated") : e.isEmpty /\ ~MarkerIn(fs0, e.dir)

(***************************************************************************)
(* C14: the rules that decide whether a directory is ignored include those *)
(* of its own ignore files, and an unanchored rule is matched against the  *)
(* directory's whole relative path, "." for the root, wherever the rule is *)
(* defined.  So when one of its own rules matches its path, the last such  *)
(* rule decides; a last line * in its own .gitignore, or a last line * or  *)
(* .* in the root's, with no .gitkeepignore of its own read after it,      *)
(* makes the walk skip it and leave it and everything beneath it alone;    *)
(* and a root skipped so ends the run with skipped = <<".">>.              *)
(***************************************************************************)
LinesRead(d, filename) ==
    IF filename \in DOMAIN fs0[d] /\ d \notin unreadable THEN fs0[d][filename] ELSE <<>>
OwnLines(d) ==
    LinesRead(d, GITIGNORE_FILENAME)
    \o (IF config.respectGitkeepIgnore THEN LinesRead(d, GITKEEP_IGNORE_FILENAME) ELSE <<>>)
OwnRules(d) == ParseLines(OwnLines(d), RelDir(d))
OwnHits(d) == {k \in 1..Len(OwnRules(d)) : matchRule(RelDir(d), OwnRules(d)[k], TRUE)}
OwnLastHit(d) == OwnRules(d)[CHOOSE k \in OwnHits(d) : \A n \in OwnHits(d) : n <= k]

EndsWithOwnStar(d) ==
    /\ OwnLines(d) # <<>>
    /\ OwnLines(d) = LinesRead(d, GITIGNORE_FILENAME)
    /\ OwnLines(d)[Len(OwnLines(d))] \in (IF d = ROOT THEN {L_STAR, L_DOT_STAR} ELSE {L_STAR})

SkippedWhole(e) ==
    /\ e.outcome = "ignored"
    /\ Count(summary.skipped, RelDir(e.dir)) = 1
    /\ Untouched(e.dir)
    /\ \A d \in Beneath(e.dir) :
           /\ ~Returned(d)
           /\ \A k \in 1..Len(stack) : stack[k].dir # d
           /\ Untouched(d)

C14_OwnRulesDecide ==
    /\ \A i \in 1..Len(trace) :
           LET e == trace[i] IN
           ~Excluded(e.dir) =>
               /\ OwnHits(e.dir) # {} =>
                      IF OwnLastHit(e.dir).isNegated THEN e.outcome # "ignored"
                      ELSE SkippedWhole(e)
               /\ EndsWithOwnStar(e.dir) => SkippedWhole(e)
    /\ (pc = "done" /\ EndsWithOwnStar(ROOT)) =>
           /\ summary.skipped = <<RelDir(ROOT)>>
           /\ summary.created = <<>> /\ summary.removed = <<>>
           /\ Len(trace) = 1
           /\ fs = fs0

\* a/b, holding a .gitignore that ends in * and a marker the normal mode would
\* delete, was skipped and keeps its marker after a whole run that changes files
C14_Witness ==
    /\ pc = "done"
    /\ NormalMode
    /\ ~config.dryRun
    /\ D_AB \in dirs
    /\ EndsWithOwnStar(D_AB)
    /\ \E e \in EventsWith("ignored") : e.dir = D_AB
    /\ MarkerIn(fs0, D_AB)
    /\ MarkerIn(fs, D_AB)
    /\ SeqHas(summary.skipped, RelDir(D_AB))


=============================================================================
